---------------------------- MODULE Spec2Model ----------------------------
(***************************************************************************)
(* HvspFuseRestore.c: an AVR controller restores the factory fuse bits of  *)
(* an ATtiny target by High-voltage Serial Programming.                    *)
(*                                                                         *)
(* The controller program is modelled statement by statement where a pin   *)
(* changes (power-up, clock pulses, power-down) and call by call above     *)
(* that.  The target chip is the environment: it shifts SDI/SII in on the  *)
(* rising edge of SCI, decodes 11-bit frames and drives SDO.               *)
(***************************************************************************)
EXTENDS Integers, Sequences, FiniteSets, TLC

VARIABLES
  portc, ddrc,            \* PORTC / DDRC bits of the six programming lines
  led,                    \* PORTB bit LED_PIN (1: LED off, 0: LED lit)
  sw,                     \* PINB bit SWITCH_PIN (0: button pressed)
  pc, stmt,               \* position in main(): label, statement of a block
  device, fuseRestoreSuccessful,
  fuseLowBits, fuseHighBits, fuseExtendedBits,
  rep_i,                  \* main()'s int i of the report loop
  fn, fpc, code, fret,    \* running instruction function, its step, argument, result
  fnLog,                  \* transferByte calls and polls the running function made
  tpc, data, instruction, tb_i, byteRead, ret,   \* transferByte frame
  tgt,                    \* the target chip
  pulses, samples,        \* history of the running transferByte call
  opLog, lineLog, nTB,    \* history of the running restore sequence
  seqInPress,             \* restore sequences started during the current press
  repLog,                 \* report periods of the running sequence: LED level, ms
  hadSuccess,             \* an earlier sequence since reset reported success
  h                       \* test harness: arguments and results

ctrlRegs == <<portc, ddrc, led>>
mainVars == <<pc, stmt, device, fuseRestoreSuccessful, fuseLowBits,
              fuseHighBits, fuseExtendedBits, rep_i>>
locals   == <<device, fuseRestoreSuccessful, fuseLowBits, fuseHighBits,
              fuseExtendedBits, rep_i>>
tbHist   == <<pulses, samples, nTB>>
fnVars   == <<fn, fpc, code, fret, fnLog>>
tbVars   == <<tpc, data, instruction, tb_i, byteRead, ret>>
histVars == <<opLog, lineLog, seqInPress, repLog, hadSuccess>>
vars     == <<portc, ddrc, led, sw, pc, stmt, device, fuseRestoreSuccessful,
              fuseLowBits, fuseHighBits, fuseExtendedBits, rep_i,
              fn, fpc, code, fret, fnLog, tpc, data, instruction, tb_i,
              byteRead, ret, tgt, pulses, samples, opLog, lineLog, nTB,
              seqInPress, repLog, hadSuccess, h>>

(***************************************************************************)
(* Bounds of the model.                                                    *)
(***************************************************************************)
\* seqInPress counts up to this value and then saturates.
MaxSeqInPress == 2

(***************************************************************************)
(* uint8_t arithmetic.                                                     *)
(***************************************************************************)
Byte == 0..255

Bit(b, k) == (b \div (2^k)) % 2

\* `data & 0x80` and `instruction & 0x80`, as the level put on the line
MSB(b) == (b \div 128) % 2

\* `data <<= 1` and `instruction <<= 1` on a uint8_t
ShiftOut_none(b) == b
ShiftOut(b) == (b * 2) % 256

\* `byteRead <<= 1; if (SDO) byteRead |= 1;`
SampleInto_lsbFirst(b, level) == (b \div 2) + 128 * level
SampleInto(b, level) == ((b * 2) % 256) + level

(***************************************************************************)
(* The device table.                                                       *)
(***************************************************************************)
targetCpu == <<
  [signature |-> <<30, 144,  7>>, fuseLowBits |-> 106, fuseHighBits |-> 255, fuseExtendedBits |->   0],  \* ATtiny13
  [signature |-> <<30, 145, 11>>, fuseLowBits |->  98, fuseHighBits |-> 223, fuseExtendedBits |-> 255],  \* ATtiny24
  [signature |-> <<30, 146,  7>>, fuseLowBits |->  98, fuseHighBits |-> 223, fuseExtendedBits |-> 255],  \* ATtiny44
  [signature |-> <<30, 147, 12>>, fuseLowBits |->  98, fuseHighBits |-> 223, fuseExtendedBits |-> 255],  \* ATtiny84
  [signature |-> <<30, 145,  8>>, fuseLowBits |->  98, fuseHighBits |-> 223, fuseExtendedBits |-> 255],  \* ATtiny25
  [signature |-> <<30, 146,  6>>, fuseLowBits |->  98, fuseHighBits |-> 223, fuseExtendedBits |-> 255],  \* ATtiny45
  [signature |-> <<30, 147, 11>>, fuseLowBits |->  98, fuseHighBits |-> 223, fuseExtendedBits |-> 255],  \* ATtiny85
  [signature |-> << 0,   0,  0>>, fuseLowBits |->   0, fuseHighBits |->   0, fuseExtendedBits |->   0] >> \* end of list

(***************************************************************************)
(* The target chip (environment).  A frame is 11 rising edges of SCI: the  *)
(* bits on SDI and SII at edges 2..9 are the data and the instruction byte,*)
(* MSB first.  A read instruction latches a byte that the chip shifts out  *)
(* on SDO during the next frame, its bit 7 after the first edge.  Outside  *)
(* a read SDO is the ready flag: low while a fuse write is in progress.    *)
(***************************************************************************)
Banks == {"low", "high", "ext"}

\* Signatures a chip in the socket may have: the seven supported ones and
\* three the table does not hold.
ForeignSignatures == { <<30, 147, 7>>, <<30, 144, 11>>, <<255, 255, 255>> }
KnownSignatures == { targetCpu[r].signature : r \in 1..(Len(targetCpu) - 1) }
Signatures == KnownSignatures \cup ForeignSignatures

\* Fuse bytes of a chip whose fuses need restoring.
CorruptFuses == [low |-> 228, high |-> 94, ext |-> 254]

TargetOff(sig, fuse) ==
  [sig |-> sig, fuse |-> fuse, faulty |-> FALSE,
   cmd |-> 0, addr |-> 0, dat |-> 0, bank |-> "none",
   out |-> 0, arm |-> FALSE, busy |-> FALSE,
   n |-> 0, rxd |-> 0, rxi |-> 0, sdo |-> 0]

NoTarget == TargetOff(<<255, 255, 255>>, CorruptFuses)

\* The chip's action on a complete frame (d, ins).
TargetExec(t, d, ins) ==
  LET latch(b) == [t EXCEPT !.out = b, !.arm = TRUE]
      idle     == [t EXCEPT !.arm = FALSE]
      start    == [t EXCEPT !.arm = FALSE, !.busy = TRUE]
      u == CASE ins = 76  -> [t EXCEPT !.cmd = d, !.bank = "none", !.arm = FALSE]
             [] ins = 12  -> [t EXCEPT !.addr = d, !.arm = FALSE]
             [] ins = 44  -> [t EXCEPT !.dat = d, !.arm = FALSE]
             [] ins = 104 -> IF t.cmd = 8
                               THEN latch(IF t.addr \in 0..2 THEN t.sig[t.addr + 1] ELSE 255)
                             ELSE IF t.cmd = 4 THEN latch(t.fuse.low) ELSE idle
             [] ins = 122 -> IF t.cmd = 4 THEN latch(t.fuse.high) ELSE idle
             [] ins = 106 -> IF t.cmd = 4 THEN latch(t.fuse.ext) ELSE idle
             [] ins = 100 -> IF t.cmd = 64 THEN [t EXCEPT !.bank = "low",  !.arm = FALSE] ELSE idle
             [] ins = 116 -> IF t.cmd = 64 THEN [t EXCEPT !.bank = "high", !.arm = FALSE] ELSE idle
             [] ins = 102 -> IF t.cmd = 64 THEN [t EXCEPT !.bank = "ext",  !.arm = FALSE] ELSE idle
             [] ins = 108 -> IF ~t.arm /\ t.cmd = 64 /\ t.bank = "low"  THEN start ELSE idle
             [] ins = 124 -> IF ~t.arm /\ t.cmd = 64 /\ t.bank = "high" THEN start ELSE idle
             [] ins = 110 -> IF ~t.arm /\ t.cmd = 64 /\ t.bank = "ext"  THEN start ELSE idle
             [] OTHER     -> idle
  IN [u EXCEPT !.n = 0, !.rxd = 0, !.rxi = 0, !.sdo = IF u.busy THEN 0 ELSE 1]

\* The chip's reaction to one rising edge of SCI with the levels sdi, sii.
TargetClock(t, sdi, sii) ==
  LET k  == t.n + 1
      d  == IF k \in 2..9 THEN ((t.rxd * 2) % 256) + sdi ELSE t.rxd
      s  == IF k \in 2..9 THEN ((t.rxi * 2) % 256) + sii ELSE t.rxi
      o  == IF t.arm /\ k \in 1..8 THEN Bit(t.out, 8 - k) ELSE t.sdo
  IN IF k = 11 THEN TargetExec(t, d, s)
     ELSE [t EXCEPT !.n = k, !.rxd = d, !.rxi = s, !.sdo = o]

\* The chip finishes a fuse write and SDO goes high: the byte loaded is now
\* stored in the bank, or, on a chip that fails to program (tgt.faulty), the
\* bank may still hold what it held.
TargetReady ==
  /\ tgt.busy
  /\ \E stored \in IF tgt.faulty THEN BOOLEAN ELSE {TRUE} :
       tgt' = [tgt EXCEPT !.busy = FALSE, !.sdo = 1,
                          !.fuse = IF stored THEN [@ EXCEPT ![tgt.bank] = tgt.dat]
                                   ELSE @]
  /\ UNCHANGED <<ctrlRegs, sw, mainVars, fnVars, tbVars, pulses, samples,
                 histVars, nTB, h>>

\* The chip is in programming mode: powered, +12V on its reset pin.
InProgMode ==
  /\ ddrc.vcc = 1 /\ portc.vcc = 1
  /\ ddrc.rst = 1 /\ portc.rst = 0

\* `HVSP_SDO_IN & (1<<HVSP_SDO)`: the level the controller reads on SDO
SDO_IN == IF ddrc.sdo = 1 THEN portc.sdo ELSE tgt.sdo

(***************************************************************************)
(* clockit() and transferByte()                                            *)
(***************************************************************************)
ClockLabels == {"clk_lead", "clk_bit", "clk_trail1", "clk_trail2"}

\* what the caller of transferByte(d, ins) sets up
TB_Call(d, ins) ==
  /\ tpc' = "lead"
  /\ data' = d
  /\ instruction' = ins
  /\ byteRead' = 0
  /\ tb_i' = 0
  /\ pulses' = <<>>
  /\ samples' = <<>>
  /\ nTB' = IF nTB < 2 THEN nTB + 1 ELSE nTB
  /\ UNCHANGED ret

\* first bit is zero
TB_Lead ==
  /\ tpc = "lead"
  /\ portc' = [portc EXCEPT !.sdi = 0, !.sii = 0]
  /\ tpc' = "clk_lead"
  /\ UNCHANGED <<ddrc, led, sw, mainVars, fnVars, data, instruction, tb_i,
                 byteRead, ret, tgt, pulses, samples, histVars, nTB, h>>

\* clockit(): SCI high
ClockHigh ==
  /\ tpc \in ClockLabels
  /\ portc.sci = 0
  /\ portc' = [portc EXCEPT !.sci = 1]
  /\ tgt' = IF InProgMode THEN TargetClock(tgt, portc.sdi, portc.sii) ELSE tgt
  /\ pulses' = Append(pulses, <<portc.sdi, portc.sii>>)
  /\ UNCHANGED <<ddrc, led, sw, mainVars, fnVars, tbVars, samples, histVars,
                 nTB, h>>

\* where transferByte continues after a clockit()
AfterClock(l, n) ==
  CASE l = "clk_lead"   -> "sample"
    [] l = "clk_bit"    -> IF n + 1 < 8 THEN "sample" ELSE "trail"
    [] l = "clk_trail1" -> "clk_trail2"
    [] l = "clk_trail2" -> "return"

\* clockit(): SCI low again; after a data bit, prepare the next bit
ClockLow ==
  /\ tpc \in ClockLabels
  /\ portc.sci = 1
  /\ portc' = [portc EXCEPT !.sci = 0]
  /\ tpc' = AfterClock(tpc, tb_i)
  /\ IF tpc = "clk_bit"
       THEN /\ data' = ShiftOut(data)
            /\ instruction' = ShiftOut(instruction)
            /\ tb_i' = tb_i + 1
       ELSE UNCHANGED <<data, instruction, tb_i>>
  /\ UNCHANGED <<ddrc, led, sw, mainVars, fnVars, byteRead, ret, tgt, pulses,
                 samples, histVars, nTB, h>>

\* read one bit from SDO
TB_Sample ==
  /\ tpc = "sample"
  /\ byteRead' = SampleInto(byteRead, SDO_IN)
  /\ samples' = Append(samples, [level |-> SDO_IN, pulses |-> Len(pulses),
                                 sdi |-> portc.sdi, sii |-> portc.sii])
  /\ tpc' = "drive"
  /\ UNCHANGED <<ctrlRegs, sw, mainVars, fnVars, data, instruction, tb_i, ret,
                 tgt, pulses, histVars, nTB, h>>

\* output next data bit on SDI and next instruction bit on SII
TB_Drive ==
  /\ tpc = "drive"
  /\ portc' = [portc EXCEPT !.sdi = MSB(data), !.sii = MSB(instruction)]
  /\ tpc' = "clk_bit"
  /\ UNCHANGED <<ddrc, led, sw, mainVars, fnVars, data, instruction, tb_i,
                 byteRead, ret, tgt, pulses, samples, histVars, nTB, h>>

\* last two bits are zero
TB_Trail ==
  /\ tpc = "trail"
  /\ portc' = [portc EXCEPT !.sdi = 0, !.sii = 0]
  /\ tpc' = "clk_trail1"
  /\ UNCHANGED <<ddrc, led, sw, mainVars, fnVars, data, instruction, tb_i,
                 byteRead, ret, tgt, pulses, samples, histVars, nTB, h>>

\* return byteRead, to the instruction function or to the harness
TB_Return ==
  /\ tpc = "return"
  /\ ret' = byteRead
  /\ tpc' = "idle"
  /\ fpc' = IF fn = "none" THEN fpc ELSE fpc + 1
  /\ UNCHANGED <<ctrlRegs, sw, mainVars, fn, code, fret, fnLog, data,
                 instruction, tb_i, byteRead, tgt, pulses, samples, histVars,
                 nTB, h>>

transferByte == TB_Lead \/ ClockHigh \/ ClockLow \/ TB_Sample \/ TB_Drive
                  \/ TB_Trail \/ TB_Return

(***************************************************************************)
(* The High-voltage Serial Programming instructions: each function is a    *)
(* fixed list of transferByte calls and completion polls.                  *)
(***************************************************************************)
TB(d, ins) == [op |-> "tb", d |-> d, ins |-> ins]
Poll == [op |-> "poll"]

getSignature(c) == << TB(8, 76), TB(c, 12), TB(0, 104), TB(0, 108) >>

writeFuseLowBits_onePoll(c) ==
  << TB(64, 76), TB(c, 44), TB(0, 100), TB(0, 108), Poll, TB(0, 76) >>
writeFuseLowBits(c) ==
  << TB(64, 76), TB(c, 44), TB(0, 100), TB(0, 108), Poll, TB(0, 76), Poll >>

writeFuseHighBits_lowOpcodes(c) ==
  << TB(64, 76), TB(c, 44), TB(0, 100), TB(0, 108), Poll, TB(0, 76), Poll >>
writeFuseHighBits(c) ==
  << TB(64, 76), TB(c, 44), TB(0, 116), TB(0, 124), Poll, TB(0, 76), Poll >>

writeFuseExtendedBits(c) ==
  << TB(64, 76), TB(c, 44), TB(0, 102), TB(0, 110), Poll, TB(0, 76), Poll >>

readFuseLowBits == << TB(4, 76), TB(0, 104), TB(0, 108) >>

readFuseHighBits == << TB(4, 76), TB(0, 122), TB(0, 126) >>

readFuseExtendedBits == << TB(4, 76), TB(0, 106), TB(0, 110) >>

WriteFns == {"writeFuseLowBits", "writeFuseHighBits", "writeFuseExtendedBits"}
ReadFns  == {"readFuseLowBits", "readFuseHighBits", "readFuseExtendedBits"}

\* the steps of the running function
Body(f, c) ==
  CASE f = "getSignature"          -> getSignature(c)
    [] f = "writeFuseLowBits"      -> writeFuseLowBits(c)
    [] f = "writeFuseHighBits"     -> writeFuseHighBits(c)
    [] f = "writeFuseExtendedBits" -> writeFuseExtendedBits(c)
    [] f = "readFuseLowBits"       -> readFuseLowBits
    [] f = "readFuseHighBits"      -> readFuseHighBits
    [] f = "readFuseExtendedBits"  -> readFuseExtendedBits

\* what the caller of f(c) sets up
Fn_Call(f, c) ==
  /\ fn' = f
  /\ code' = c
  /\ fpc' = 1
  /\ fnLog' = <<>>
  /\ opLog' = Append(opLog, [ev |-> "call", op |-> f, val |-> c])
  /\ UNCHANGED fret

\* the function's next step is a transferByte call
Fn_Transfer ==
  /\ fn # "none" /\ tpc = "idle"
  /\ fpc <= Len(Body(fn, code))
  /\ Body(fn, code)[fpc].op = "tb"
  /\ TB_Call(Body(fn, code)[fpc].d, Body(fn, code)[fpc].ins)
  /\ fnLog' = Append(fnLog, Body(fn, code)[fpc])
  /\ UNCHANGED <<ctrlRegs, sw, mainVars, fn, fpc, code, fret, tgt, histVars, h>>

\* `while (0 == (HVSP_SDO_IN & _BV(HVSP_SDO))) {}`: the level that ends the loop
SdoHigh_anyLevel(level) == TRUE
SdoHigh_inverted(level) == level = 0
SdoHigh(level) == level # 0

\* pollSDO(): wait until SDO goes high.  While SDO is low the loop spins and
\* nothing changes: the wait is a stuttering step of the controller.
pollSDO ==
  /\ fn # "none" /\ tpc = "idle"
  /\ fpc <= Len(Body(fn, code))
  /\ Body(fn, code)[fpc].op = "poll"
  /\ SdoHigh(SDO_IN)
  /\ fpc' = fpc + 1
  /\ fnLog' = Append(fnLog, [op |-> "poll", level |-> SDO_IN])
  /\ UNCHANGED <<ctrlRegs, sw, mainVars, fn, code, fret, tbVars, tgt, pulses,
                 samples, histVars, nTB, h>>

\* the function returns; the read functions return the last byte transferred
Fn_Return ==
  /\ fn # "none" /\ tpc = "idle"
  /\ fpc > Len(Body(fn, code))
  /\ fret' = ret
  /\ fn' = "none"
  /\ opLog' = Append(opLog, [ev |-> "ret", op |-> fn,
                             val |-> IF fn \in WriteFns THEN code ELSE ret])
  /\ UNCHANGED <<ctrlRegs, sw, mainVars, fpc, code, fnLog, tbVars, tgt, pulses,
                 samples, lineLog, seqInPress, repLog, hadSuccess, nTB, h>>

(***************************************************************************)
(* main()                                                                  *)
(***************************************************************************)
Pins == {"sdi", "sii", "sdo", "sci", "vcc", "rst"}

St(reg, pin, v) == [reg |-> reg, pin |-> pin, v |-> v]

PowerUp_sdoStaysOutput == <<
  St("ddr", "sci", 1), St("ddr", "sii", 1), St("ddr", "sdi", 1),
  St("ddr", "sdo", 1), St("ddr", "rst", 1), St("ddr", "vcc", 1),
  St("port", "sci", 0), St("port", "sii", 0), St("port", "sdi", 0),
  St("port", "sdo", 0), St("port", "rst", 1), St("port", "vcc", 0),
  St("port", "vcc", 1),
  St("delay_us", "none", 60),
  St("port", "rst", 0),
  St("delay_us", "none", 20),
  St("delay_us", "none", 300) >>

PowerUp_resetNotApplied == <<
  St("ddr", "sci", 1), St("ddr", "sii", 1), St("ddr", "sdi", 1),
  St("ddr", "sdo", 1), St("ddr", "rst", 1), St("ddr", "vcc", 1),
  St("port", "sci", 0), St("port", "sii", 0), St("port", "sdi", 0),
  St("port", "sdo", 0), St("port", "rst", 1), St("port", "vcc", 0),
  St("port", "vcc", 1),
  St("delay_us", "none", 60),
  St("delay_us", "none", 20),
  St("ddr", "sdo", 0),
  St("delay_us", "none", 300) >>

\* 1. to 6.: enter High-voltage Serial Programming mode
PowerUp == <<
  St("ddr", "sci", 1), St("ddr", "sii", 1), St("ddr", "sdi", 1),
  St("ddr", "sdo", 1), St("ddr", "rst", 1), St("ddr", "vcc", 1),
  St("port", "sci", 0), St("port", "sii", 0), St("port", "sdi", 0),
  St("port", "sdo", 0), St("port", "rst", 1), St("port", "vcc", 0),
  St("port", "vcc", 1),
  St("delay_us", "none", 60),
  St("port", "rst", 0),
  St("delay_us", "none", 20),
  St("ddr", "sdo", 0),
  St("delay_us", "none", 300) >>

\* 7. exit programming mode
PowerDown_vccFirst == <<
  St("port", "sci", 0), St("port", "sii", 0), St("port", "sdi", 0),
  St("port", "vcc", 0),
  St("delay_us", "none", 10),
  St("port", "rst", 1) >>
PowerDown == <<
  St("port", "sci", 0), St("port", "sii", 0), St("port", "sdi", 0),
  St("port", "rst", 1),
  St("delay_us", "none", 10),
  St("port", "vcc", 0) >>

\* the chips that may sit in the socket when VCC is applied: any signature,
\* fuses to be restored; any write to a chip may fail to program the bank
Chips ==
  { [TargetOff(sig, CorruptFuses) EXCEPT !.sdo = 1, !.faulty = TRUE] :
      sig \in Signatures }

\* LED pin as output and initially off, pull-up for the push button
Setup ==
  /\ pc = "setup"
  /\ led' = 1
  /\ pc' = "loop"
  /\ UNCHANGED <<portc, ddrc, sw, stmt, locals, fnVars, tbVars, tgt, tbHist,
                 histVars, h>>

\* `LED_OUT |= (1<<LED_PIN);`: turn off LED
LedOff_kept(l) == l
LedOff(l) == 1

\* `bool fuseRestoreSuccessful = false;` at the top of the loop body
InitialOutcome_kept(f) == f
InitialOutcome(f) == FALSE

\* top of while(1): the outcome is reset, the LED is switched off
LoopTop ==
  /\ pc = "loop"
  /\ fuseRestoreSuccessful' = InitialOutcome(fuseRestoreSuccessful)
  /\ led' = LedOff(led)
  /\ pc' = "test_switch"
  /\ UNCHANGED <<portc, ddrc, sw, stmt, device, fuseLowBits, fuseHighBits,
                 fuseExtendedBits, rep_i, fnVars, tbVars, tgt, tbHist,
                 histVars, h>>

\* start when push button is pushed
TestSwitch ==
  /\ pc = "test_switch"
  /\ IF sw = 0
       THEN /\ pc' = "powerup"
            /\ stmt' = 1
            /\ seqInPress' = IF seqInPress < MaxSeqInPress
                               THEN seqInPress + 1 ELSE seqInPress
            /\ opLog' = <<>>
            /\ lineLog' = <<>>
            /\ repLog' = <<>>
            /\ nTB' = 0
       ELSE /\ pc' = "loop"
            /\ UNCHANGED <<stmt, seqInPress, opLog, lineLog, repLog, nTB>>
  /\ UNCHANGED <<ctrlRegs, sw, locals, fnVars, tbVars, tgt, pulses, samples,
                 hadSuccess, h>>

\* one statement of the power-up or of the power-down block
PinStep ==
  /\ pc \in {"powerup", "powerdown"}
  /\ LET blk == IF pc = "powerup" THEN PowerUp ELSE PowerDown
         st  == blk[stmt]
     IN /\ portc' = IF st.reg = "port" THEN [portc EXCEPT ![st.pin] = st.v]
                    ELSE portc
        /\ ddrc' = IF st.reg = "ddr" THEN [ddrc EXCEPT ![st.pin] = st.v]
                   ELSE ddrc
        /\ lineLog' = Append(lineLog, <<st.reg, st.pin, st.v>>)
        /\ IF st.reg = "port" /\ st.pin = "vcc" /\ st.v = 1
             THEN tgt' \in Chips
             ELSE IF st.reg = "port" /\ st.pin = "vcc" /\ st.v = 0
                    THEN tgt' = TargetOff(tgt.sig, tgt.fuse)
                    ELSE tgt' = tgt
        /\ IF stmt < Len(blk)
             THEN /\ stmt' = stmt + 1
                  /\ pc' = pc
             ELSE /\ stmt' = 0
                  /\ pc' = IF pc = "powerup" THEN "for_init" ELSE "rep_init"
  /\ UNCHANGED <<led, sw, locals, fnVars, tbVars, tbHist, opLog, seqInPress,
                 repLog, hadSuccess, h>>

\* for (device = 0; ...
ForInit ==
  /\ pc = "for_init"
  /\ device' = 0
  /\ pc' = "for_test"
  /\ UNCHANGED <<ctrlRegs, sw, stmt, fuseRestoreSuccessful, fuseLowBits,
                 fuseHighBits, fuseExtendedBits, rep_i, fnVars, tbVars, tgt,
                 tbHist, histVars, h>>

\* ... pgm_read_byte(&targetCpu[device].signature[0]) != 0; ...
EndOfList_afterFirstRecord(d) == d >= 1
EndOfList(d) == targetCpu[d + 1].signature[1] = 0

ForTest ==
  /\ pc = "for_test"
  /\ IF EndOfList(device)
       THEN pc' = "powerdown" /\ stmt' = 1
       ELSE pc' = "sig0" /\ stmt' = stmt
  /\ UNCHANGED <<ctrlRegs, sw, locals, fnVars, tbVars, tgt, tbHist,
                 histVars, h>>

\* ... device++)
ForInc ==
  /\ pc = "for_inc"
  /\ device' = device + 1
  /\ pc' = "for_test"
  /\ UNCHANGED <<ctrlRegs, sw, stmt, fuseRestoreSuccessful, fuseLowBits,
                 fuseHighBits, fuseExtendedBits, rep_i, fnVars, tbVars, tgt,
                 tbHist, histVars, h>>

SigLabel(k)    == CASE k = 0 -> "sig0" [] k = 1 -> "sig1" [] k = 2 -> "sig2"
SigCmpLabel(k) == CASE k = 0 -> "sig0_cmp" [] k = 1 -> "sig1_cmp" [] k = 2 -> "sig2_cmp"

\* getSignature(k) == pgm_read_byte(&targetCpu[device].signature[k]): the call
SigCall(k) ==
  /\ pc = SigLabel(k) /\ fn = "none"
  /\ Fn_Call("getSignature", k)
  /\ pc' = SigCmpLabel(k)
  /\ UNCHANGED <<ctrlRegs, sw, stmt, locals, tbVars, tgt, tbHist, lineLog,
                 seqInPress, repLog, hadSuccess, h>>

\* one operand of the && of the match
SigEqual_firstByteOnly(got, d, k) == k > 0 \/ got = targetCpu[d + 1].signature[k + 1]
SigEqual_lastByteIgnored(got, d, k) == k = 2 \/ got = targetCpu[d + 1].signature[k + 1]
SigEqual(got, d, k) == got = targetCpu[d + 1].signature[k + 1]

\* the comparison; && stops at the first byte that differs
SigCompare(k) ==
  /\ pc = SigCmpLabel(k) /\ fn = "none"
  /\ pc' = IF SigEqual(fret, device, k)
             THEN (IF k < 2 THEN SigLabel(k + 1) ELSE "load_fuses")
             ELSE "for_inc"
  /\ UNCHANGED <<ctrlRegs, sw, stmt, locals, fnVars, tbVars, tgt, tbHist,
                 histVars, h>>

\* get default fuse bits for selected target
LoadFuses ==
  /\ pc = "load_fuses"
  /\ fuseLowBits' = targetCpu[device + 1].fuseLowBits
  /\ fuseHighBits' = targetCpu[device + 1].fuseHighBits
  /\ fuseExtendedBits' = targetCpu[device + 1].fuseExtendedBits
  /\ pc' = "write_low"
  /\ UNCHANGED <<ctrlRegs, sw, stmt, device, fuseRestoreSuccessful, rep_i,
                 fnVars, tbVars, tgt, tbHist, histVars, h>>

\* write default fuse bits
WriteLow ==
  /\ pc = "write_low" /\ fn = "none"
  /\ Fn_Call("writeFuseLowBits", fuseLowBits)
  /\ pc' = "write_high"
  /\ UNCHANGED <<ctrlRegs, sw, stmt, locals, tbVars, tgt, tbHist, lineLog,
                 seqInPress, repLog, hadSuccess, h>>

WriteHigh ==
  /\ pc = "write_high" /\ fn = "none"
  /\ Fn_Call("writeFuseHighBits", fuseHighBits)
  /\ pc' = "ext_test"
  /\ UNCHANGED <<ctrlRegs, sw, stmt, locals, tbVars, tgt, tbHist, lineLog,
                 seqInPress, repLog, hadSuccess, h>>

\* if ( fuseExtendedBits != 0 )
HasExtended_always(e) == TRUE
HasExtended(e) == e # 0

ExtTest ==
  /\ pc = "ext_test" /\ fn = "none"
  /\ pc' = IF HasExtended(fuseExtendedBits) THEN "write_ext" ELSE "verify_low"
  /\ UNCHANGED <<ctrlRegs, sw, stmt, locals, fnVars, tbVars, tgt, tbHist,
                 histVars, h>>

WriteExt ==
  /\ pc = "write_ext" /\ fn = "none"
  /\ Fn_Call("writeFuseExtendedBits", fuseExtendedBits)
  /\ pc' = "verify_low"
  /\ UNCHANGED <<ctrlRegs, sw, stmt, locals, tbVars, tgt, tbHist, lineLog,
                 seqInPress, repLog, hadSuccess, h>>

\* verify: fuseLowBits == readFuseLowBits() && ...
VerifyLow ==
  /\ pc = "verify_low" /\ fn = "none"
  /\ Fn_Call("readFuseLowBits", 0)
  /\ pc' = "verify_low_cmp"
  /\ UNCHANGED <<ctrlRegs, sw, stmt, locals, tbVars, tgt, tbHist, lineLog,
                 seqInPress, repLog, hadSuccess, h>>

\* one operand of the && of the verification
Verified_always(want, got) == TRUE
Verified(want, got) == want = got

VerifyLowCmp ==
  /\ pc = "verify_low_cmp" /\ fn = "none"
  /\ IF Verified(fuseLowBits, fret)
       THEN pc' = "verify_high" /\ stmt' = stmt
       ELSE pc' = "powerdown" /\ stmt' = 1
  /\ UNCHANGED <<ctrlRegs, sw, locals, fnVars, tbVars, tgt, tbHist,
                 histVars, h>>

\* ... fuseHighBits == readFuseHighBits() && ...
VerifyHigh ==
  /\ pc = "verify_high" /\ fn = "none"
  /\ Fn_Call("readFuseHighBits", 0)
  /\ pc' = "verify_high_cmp"
  /\ UNCHANGED <<ctrlRegs, sw, stmt, locals, tbVars, tgt, tbHist, lineLog,
                 seqInPress, repLog, hadSuccess, h>>

VerifyHighCmp ==
  /\ pc = "verify_high_cmp" /\ fn = "none"
  /\ IF Verified(fuseHighBits, fret)
       THEN pc' = "verify_ext_test" /\ stmt' = stmt
       ELSE pc' = "powerdown" /\ stmt' = 1
  /\ UNCHANGED <<ctrlRegs, sw, locals, fnVars, tbVars, tgt, tbHist,
                 histVars, h>>

\* ... ( (0 == fuseExtendedBits) || (fuseExtendedBits == readFuseExtendedBits()) )
NoExtended_never(e) == FALSE
NoExtended(e) == 0 = e

VerifyExtTest ==
  /\ pc = "verify_ext_test"
  /\ pc' = IF NoExtended(fuseExtendedBits) THEN "success" ELSE "verify_ext"
  /\ UNCHANGED <<ctrlRegs, sw, stmt, locals, fnVars, tbVars, tgt, tbHist,
                 histVars, h>>

VerifyExt ==
  /\ pc = "verify_ext" /\ fn = "none"
  /\ Fn_Call("readFuseExtendedBits", 0)
  /\ pc' = "verify_ext_cmp"
  /\ UNCHANGED <<ctrlRegs, sw, stmt, locals, tbVars, tgt, tbHist, lineLog,
                 seqInPress, repLog, hadSuccess, h>>

VerifyExtCmp ==
  /\ pc = "verify_ext_cmp" /\ fn = "none"
  /\ IF Verified(fuseExtendedBits, fret)
       THEN pc' = "success" /\ stmt' = stmt
       ELSE pc' = "powerdown" /\ stmt' = 1
  /\ UNCHANGED <<ctrlRegs, sw, locals, fnVars, tbVars, tgt, tbHist,
                 histVars, h>>

\* fuseRestoreSuccessful = true; break;
Success ==
  /\ pc = "success"
  /\ fuseRestoreSuccessful' = TRUE
  /\ pc' = "powerdown"
  /\ stmt' = 1
  /\ UNCHANGED <<ctrlRegs, sw, device, fuseLowBits, fuseHighBits,
                 fuseExtendedBits, rep_i, fnVars, tbVars, tgt, tbHist,
                 histVars, h>>

\* for (i=0; ...
RepInit ==
  /\ pc = "rep_init"
  /\ rep_i' = 0
  /\ pc' = "rep_test"
  /\ UNCHANGED <<ctrlRegs, sw, stmt, device, fuseRestoreSuccessful,
                 fuseLowBits, fuseHighBits, fuseExtendedBits, fnVars, tbVars,
                 tgt, tbHist, histVars, h>>

\* ... i<16; ...
RepTest ==
  /\ pc = "rep_test"
  /\ pc' = IF rep_i < 16 THEN "rep_led" ELSE "loop"
  /\ hadSuccess' = IF rep_i < 16 THEN hadSuccess
                   ELSE (hadSuccess \/ fuseRestoreSuccessful)
  /\ UNCHANGED <<ctrlRegs, sw, stmt, locals, fnVars, tbVars, tgt, tbHist,
                 opLog, lineLog, seqInPress, repLog, h>>

\* turn on LED if fuse restore was successful or flash LED on error
ReportLevel_steady(ok, l) == IF ok THEN 0 ELSE l
ReportLevel(ok, l) == IF ok THEN 0 ELSE 1 - l

RepLed ==
  /\ pc = "rep_led"
  /\ led' = ReportLevel(fuseRestoreSuccessful, led)
  /\ pc' = "rep_delay"
  /\ UNCHANGED <<portc, ddrc, sw, stmt, locals, fnVars, tbVars, tgt, tbHist,
                 histVars, h>>

\* _delay_ms(250); ... i++)
RepDelay ==
  /\ pc = "rep_delay"
  /\ rep_i' = rep_i + 1
  /\ repLog' = Append(repLog, [led |-> led, ms |-> 250])
  /\ pc' = "rep_test"
  /\ UNCHANGED <<ctrlRegs, sw, stmt, device, fuseRestoreSuccessful,
                 fuseLowBits, fuseHighBits, fuseExtendedBits, fnVars, tbVars,
                 tgt, tbHist, opLog, lineLog, seqInPress, hadSuccess, h>>

\* the push button (environment)
Press ==
  /\ sw = 1
  /\ sw' = 0
  /\ UNCHANGED <<ctrlRegs, mainVars, fnVars, tbVars, tgt, tbHist, histVars, h>>

Release ==
  /\ sw = 0
  /\ sw' = 1
  /\ seqInPress' = 0
  /\ UNCHANGED <<ctrlRegs, mainVars, fnVars, tbVars, tgt, tbHist, opLog,
                 lineLog, repLog, hadSuccess, h>>

AllLow == [p \in Pins |-> 0]

\* the controller after reset; the button is not pressed
Init ==
  /\ portc = AllLow /\ ddrc = AllLow
  /\ led = 0 /\ sw = 1
  /\ pc = "setup" /\ stmt = 0
  /\ device = 0 /\ fuseRestoreSuccessful = FALSE
  /\ fuseLowBits = 0 /\ fuseHighBits = 0 /\ fuseExtendedBits = 0
  /\ rep_i = 0
  /\ fn = "none" /\ fpc = 0 /\ code = 0 /\ fret = 0 /\ fnLog = <<>>
  /\ tpc = "idle" /\ data = 0 /\ instruction = 0 /\ tb_i = 0
  /\ byteRead = 0 /\ ret = 0
  /\ tgt = NoTarget
  /\ pulses = <<>> /\ samples = <<>>
  /\ opLog = <<>> /\ lineLog = <<>> /\ nTB = 0 /\ seqInPress = 0
  /\ repLog = <<>> /\ hadSuccess = FALSE
  /\ h = [data |-> 0, instr |-> 0, out |-> 0, bank |-> "none", val |-> 0,
          rets |-> <<>>]

Next ==
  \/ Setup \/ LoopTop \/ TestSwitch \/ PinStep
  \/ ForInit \/ ForTest \/ ForInc
  \/ \E k \in 0..2 : SigCall(k) \/ SigCompare(k)
  \/ LoadFuses \/ WriteLow \/ WriteHigh \/ ExtTest \/ WriteExt
  \/ VerifyLow \/ VerifyLowCmp \/ VerifyHigh \/ VerifyHighCmp
  \/ VerifyExtTest \/ VerifyExt \/ VerifyExtCmp \/ Success
  \/ RepInit \/ RepTest \/ RepLed \/ RepDelay
  \/ Fn_Transfer \/ pollSDO \/ Fn_Return
  \/ TB_Lead \/ ClockHigh \/ ClockLow \/ TB_Sample \/ TB_Drive \/ TB_Trail
  \/ TB_Return
  \/ TargetReady \/ Press \/ Release

Spec == Init /\ [][Next]_vars

(***************************************************************************)
(* Harness for transferByte alone: one call with arguments h.data, h.instr *)
(* against a chip that is shifting out the byte h.out.                     *)
(***************************************************************************)
ProbeBytes == {0, 255, 165, 76}

ProgModePort == [sdi |-> 0, sii |-> 0, sdo |-> 0, sci |-> 0, vcc |-> 1, rst |-> 0]
ProgModeDdr  == [sdi |-> 1, sii |-> 1, sdo |-> 0, sci |-> 1, vcc |-> 1, rst |-> 1]

HarnessBase ==
  /\ ddrc = ProgModeDdr
  /\ led = 1 /\ sw = 1
  /\ device = 0 /\ fuseRestoreSuccessful = FALSE
  /\ fuseLowBits = 0 /\ fuseHighBits = 0 /\ fuseExtendedBits = 0
  /\ rep_i = 0 /\ stmt = 0
  /\ fn = "none" /\ fpc = 0 /\ code = 0 /\ fret = 0 /\ fnLog = <<>>
  /\ tpc = "idle" /\ data = 0 /\ instruction = 0 /\ tb_i = 0
  /\ byteRead = 0 /\ ret = 0
  /\ pulses = <<>> /\ samples = <<>>
  /\ opLog = <<>> /\ lineLog = <<>> /\ nTB = 0 /\ seqInPress = 0
  /\ repLog = <<>> /\ hadSuccess = FALSE

InitTB ==
  /\ HarnessBase
  /\ pc = "h_tb"
  \* the lines may be at any level a previous transfer left them at
  /\ \E a \in {0, 1} : portc = [ProgModePort EXCEPT !.sdi = a, !.sii = a]
  /\ \E d, s, o \in Byte :
       /\ \/ d \in ProbeBytes /\ s \in ProbeBytes
          \/ d \in ProbeBytes /\ o \in ProbeBytes
          \/ s \in ProbeBytes /\ o \in ProbeBytes
       /\ h = [data |-> d, instr |-> s, out |-> o, bank |-> "none", val |-> 0,
               rets |-> <<>>]
       /\ tgt = [TargetOff(<<30, 144, 7>>, CorruptFuses)
                   EXCEPT !.out = o, !.arm = TRUE, !.sdo = 1]

H_CallTB ==
  /\ pc = "h_tb" /\ tpc = "idle"
  /\ TB_Call(h.data, h.instr)
  /\ pc' = "h_tb_ret"
  /\ UNCHANGED <<ctrlRegs, sw, stmt, locals, fnVars, tgt, histVars, h>>

H_DoneTB ==
  /\ pc = "h_tb_ret" /\ tpc = "idle"
  /\ h' = [h EXCEPT !.rets = Append(@, ret)]
  /\ pc' = "h_done"
  /\ UNCHANGED <<ctrlRegs, sw, stmt, locals, fnVars, tbVars, tgt,
                 pulses, samples, histVars, nTB>>

NextTB == H_CallTB \/ H_DoneTB \/ TB_Lead \/ ClockHigh \/ ClockLow
            \/ TB_Sample \/ TB_Drive \/ TB_Trail \/ TB_Return

SpecTB == InitTB /\ [][NextTB]_vars

(***************************************************************************)
(* Harness for the fuse instructions: write h.val to the bank h.bank of a  *)
(* chip that stores what is written, read that bank back, then read the    *)
(* other two banks.                                                        *)
(***************************************************************************)
WriteFn(b) == CASE b = "low"  -> "writeFuseLowBits"
                [] b = "high" -> "writeFuseHighBits"
                [] b = "ext"  -> "writeFuseExtendedBits"
ReadFn(b)  == CASE b = "low"  -> "readFuseLowBits"
                [] b = "high" -> "readFuseHighBits"
                [] b = "ext"  -> "readFuseExtendedBits"

ReadOrder(b) == CASE b = "low"  -> <<"low", "high", "ext">>
                  [] b = "high" -> <<"high", "low", "ext">>
                  [] b = "ext"  -> <<"ext", "low", "high">>

InitRT ==
  /\ HarnessBase
  /\ pc = "h_write"
  /\ portc = ProgModePort
  /\ \E b \in Banks, v \in Byte :
       h = [data |-> 0, instr |-> 0, out |-> 0, bank |-> b, val |-> v,
            rets |-> <<>>]
  /\ tgt = [TargetOff(<<30, 145, 11>>, CorruptFuses) EXCEPT !.sdo = 1]

H_Write ==
  /\ pc = "h_write" /\ fn = "none"
  /\ Fn_Call(WriteFn(h.bank), h.val)
  /\ pc' = "h_read"
  /\ UNCHANGED <<ctrlRegs, sw, stmt, locals, tbVars, tgt, pulses,
                 samples, lineLog, seqInPress, repLog, hadSuccess, nTB, h>>

H_Read ==
  /\ pc = "h_read" /\ fn = "none"
  /\ Len(h.rets) < 3
  /\ Fn_Call(ReadFn(ReadOrder(h.bank)[Len(h.rets) + 1]), 0)
  /\ pc' = "h_read_ret"
  /\ UNCHANGED <<ctrlRegs, sw, stmt, locals, tbVars, tgt, pulses,
                 samples, lineLog, seqInPress, repLog, hadSuccess, nTB, h>>

H_ReadRet ==
  /\ pc = "h_read_ret" /\ fn = "none"
  /\ h' = [h EXCEPT !.rets = Append(@, fret)]
  /\ pc' = IF Len(h.rets) + 1 < 3 THEN "h_read" ELSE "h_done"
  /\ UNCHANGED <<ctrlRegs, sw, stmt, locals, fnVars, tbVars, tgt,
                 pulses, samples, histVars, nTB>>

NextRT == H_Write \/ H_Read \/ H_ReadRet \/ Fn_Transfer \/ pollSDO
            \/ Fn_Return \/ TargetReady \/ TB_Lead \/ ClockHigh \/ ClockLow
            \/ TB_Sample \/ TB_Drive \/ TB_Trail \/ TB_Return

SpecRT == InitRT /\ [][NextRT]_vars

(***************************************************************************)
(* Properties of main(), checked under Spec.                               *)
(***************************************************************************)
ScanLabels   == {"for_test", "for_inc", "sig0", "sig0_cmp", "sig1", "sig1_cmp",
                 "sig2", "sig2_cmp"}
MatchLabels  == {"load_fuses", "write_low", "write_high", "ext_test",
                 "write_ext", "verify_low", "verify_low_cmp", "verify_high",
                 "verify_high_cmp", "verify_ext_test", "verify_ext",
                 "verify_ext_cmp", "success"}
ReportLabels == {"rep_init", "rep_test", "rep_led", "rep_delay"}

\* a restore attempt on the chip tgt is under way or being reported
Attempt == pc \in ScanLabels \cup MatchLabels \cup {"powerdown"} \cup ReportLabels

\* the table's record of the chip in the socket, if it has one
Supported == tgt.sig \in KnownSignatures
RecordOf(sig) == CHOOSE r \in 1..(Len(targetCpu) - 1) : targetCpu[r].signature = sig

\* the fuse instruction events of the attempt, in order
IsFuseEvent(e) == e.op \in WriteFns \cup ReadFns
FuseLog == SelectSeq(opLog, IsFuseEvent)

\* the values returned by the reads f of the attempt
Returned(f) ==
  { opLog[k].val : k \in { j \in 1..Len(opLog) : opLog[j].ev = "ret" /\ opLog[j].op = f } }

IsPrefix(s, t) == Len(s) <= Len(t) /\ SubSeq(t, 1, Len(s)) = s

\* the line events the claims expect of power-up and of power-down
ExpectedPowerUp == <<
  <<"ddr", "sci", 1>>, <<"ddr", "sii", 1>>, <<"ddr", "sdi", 1>>,
  <<"ddr", "sdo", 1>>, <<"ddr", "rst", 1>>, <<"ddr", "vcc", 1>>,
  <<"port", "sci", 0>>, <<"port", "sii", 0>>, <<"port", "sdi", 0>>,
  <<"port", "sdo", 0>>, <<"port", "rst", 1>>, <<"port", "vcc", 0>>,
  <<"port", "vcc", 1>>, <<"delay_us", "none", 60>>,
  <<"port", "rst", 0>>, <<"delay_us", "none", 20>>,
  <<"ddr", "sdo", 0>>, <<"delay_us", "none", 300>> >>

ExpectedPowerDown == <<
  <<"port", "sci", 0>>, <<"port", "sii", 0>>, <<"port", "sdi", 0>>,
  <<"port", "rst", 1>>, <<"delay_us", "none", 10>>, <<"port", "vcc", 0>> >>

\* C1: if the chip's signature is in no record of the table, the attempt
\* issues no fuse write and no fuse read, goes from the scan to the power-down
\* sequence, and its outcome is failure.
C1_NoMatchNoFuseAccess ==
  (Attempt /\ ~Supported) =>
    /\ FuseLog = <<>>
    /\ pc \notin MatchLabels
    /\ fuseRestoreSuccessful = FALSE
    /\ pc \in ReportLabels =>
         lineLog = ExpectedPowerUp \o ExpectedPowerDown

C1_Witness ==
  /\ pc = "rep_led" /\ rep_i = 15
  /\ tgt.sig = <<30, 147, 7>>
  /\ fuseRestoreSuccessful = FALSE
  /\ Len(opLog) > 0 /\ FuseLog = <<>>

\* C2: for each of the seven records, a chip answering with that record's
\* signature makes the scan stop at that record: device is its index, and the
\* fuse values written and compared are that record's.
C2_ScanSelectsRecord ==
  (Attempt /\ Supported) =>
    LET r == RecordOf(tgt.sig) IN
    /\ pc \in ScanLabels => device <= r - 1
    /\ pc \notin ScanLabels => device = r - 1
    /\ pc \notin ScanLabels \cup {"load_fuses"} =>
         /\ fuseLowBits = targetCpu[r].fuseLowBits
         /\ fuseHighBits = targetCpu[r].fuseHighBits
         /\ fuseExtendedBits = targetCpu[r].fuseExtendedBits
    /\ \A k \in 1..Len(opLog) :
         /\ opLog[k].op = "writeFuseLowBits" => opLog[k].val = targetCpu[r].fuseLowBits
         /\ opLog[k].op = "writeFuseHighBits" => opLog[k].val = targetCpu[r].fuseHighBits
         /\ opLog[k].op = "writeFuseExtendedBits" => opLog[k].val = targetCpu[r].fuseExtendedBits

C2_Witness ==
  /\ pc = "verify_low"
  /\ tgt.sig = <<30, 147, 11>>
  /\ device = 6
  /\ fuseLowBits = 98 /\ fuseHighBits = 223 /\ fuseExtendedBits = 255

\* C3: the outcome is success only if a record matched and, after the writes,
\* readFuseLowBits() returned the record's low value, readFuseHighBits() its
\* high value and, when its extended value is not zero, readFuseExtendedBits()
\* its extended value; otherwise the outcome is failure.
C3_SuccessOnlyIfReadBack ==
  fuseRestoreSuccessful =>
    /\ pc \in {"powerdown", "loop"} \cup ReportLabels
    /\ Supported
    /\ LET r == RecordOf(tgt.sig) IN
       /\ Returned("readFuseLowBits") = {targetCpu[r].fuseLowBits}
       /\ Returned("readFuseHighBits") = {targetCpu[r].fuseHighBits}
       /\ targetCpu[r].fuseExtendedBits # 0 =>
            Returned("readFuseExtendedBits") = {targetCpu[r].fuseExtendedBits}

C3_Witness ==
  /\ pc = "rep_delay"
  /\ fuseRestoreSuccessful
  /\ tgt.sig = <<30, 145, 11>>
  /\ Returned("readFuseExtendedBits") = {255}
  /\ led = 0

\* the write events the claim expects for the record r
WriteEvents(f, v) == << [ev |-> "call", op |-> f, val |-> v],
                        [ev |-> "ret", op |-> f, val |-> v] >>
ExpectedWrites(r) ==
  WriteEvents("writeFuseLowBits", targetCpu[r].fuseLowBits)
    \o WriteEvents("writeFuseHighBits", targetCpu[r].fuseHighBits)
    \o (IF targetCpu[r].fuseExtendedBits # 0
          THEN WriteEvents("writeFuseExtendedBits", targetCpu[r].fuseExtendedBits)
          ELSE <<>>)

\* C4: on a match the low fuse is written, then the high fuse, then the
\* extended fuse if and only if the record's extended value is not zero, and
\* every write has returned before the first fuse read.  For {0x1E,0x90,0x07}
\* the writes are 0x6A and 0xFF and no more; for {0x1E,0x91,0x0B} they are
\* 0x62, 0xDF and 0xFF.
C4_WriteOrder ==
  (Attempt /\ Supported) =>
    LET w == ExpectedWrites(RecordOf(tgt.sig)) IN
    /\ \/ IsPrefix(FuseLog, w)
       \/ /\ IsPrefix(w, FuseLog)
          /\ \A k \in (Len(w) + 1)..Len(FuseLog) : FuseLog[k].op \in ReadFns
    /\ pc \in (MatchLabels \ {"load_fuses", "write_low", "write_high",
                               "ext_test", "write_ext", "verify_low"})
              \cup {"powerdown"} \cup ReportLabels
         => IsPrefix(w, FuseLog) /\ Len(FuseLog) > Len(w)
    /\ tgt.sig = <<30, 144, 7>> =>
         w = WriteEvents("writeFuseLowBits", 106) \o WriteEvents("writeFuseHighBits", 255)
    /\ tgt.sig = <<30, 145, 11>> =>
         w = WriteEvents("writeFuseLowBits", 98) \o WriteEvents("writeFuseHighBits", 223)
               \o WriteEvents("writeFuseExtendedBits", 255)

C4_Witness ==
  /\ pc = "verify_low_cmp" /\ fn = "none"
  /\ tgt.sig = <<30, 144, 7>>
  /\ Len(FuseLog) = 6
  /\ FuseLog[1] = [ev |-> "call", op |-> "writeFuseLowBits", val |-> 106]
  /\ FuseLog[3] = [ev |-> "call", op |-> "writeFuseHighBits", val |-> 255]
  /\ FuseLog[5].op = "readFuseLowBits"

\* C8: one press of the button, however long, starts one restore sequence and
\* no second one.
C8_OneSequencePerPress == seqInPress <= 1

\* the high-voltage reset is driven to its asserted level
HvAsserted == ddrc.rst = 1 /\ portc.rst = 0

\* C9: on every path the power-down sequence runs before Reporting, in the
\* order clock, SII, SDI low, reset deasserted, delay, VCC low; from the end of
\* power-up on, VCC is never low while the high-voltage reset is asserted.
C9_PowerDownOrder ==
  /\ pc \in ReportLabels =>
       /\ Len(lineLog) = Len(ExpectedPowerUp) + Len(ExpectedPowerDown)
       /\ SubSeq(lineLog, Len(ExpectedPowerUp) + 1, Len(lineLog)) = ExpectedPowerDown
       /\ portc.sci = 0 /\ portc.sii = 0 /\ portc.sdi = 0
       /\ portc.rst = 1 /\ portc.vcc = 0
  /\ (pc \notin {"setup", "powerup"} /\ HvAsserted) => portc.vcc = 1

C9_Witness ==
  /\ pc = "rep_init"
  /\ Supported
  /\ fuseRestoreSuccessful = FALSE
  /\ Returned("readFuseLowBits") # {}
  /\ portc.vcc = 0 /\ portc.rst = 1

\* C10: before the first transferByte call of a sequence the entry steps have
\* run once each and in order: the six lines made outputs, all low but the
\* reset line (deasserted); VCC high; settle delay; reset asserted; latch
\* delay; SDO made an input; stabilization delay.
C10_PowerUpOrder ==
  nTB > 0 =>
    /\ IsPrefix(ExpectedPowerUp, lineLog)
    /\ pc \in ScanLabels \cup MatchLabels =>
         /\ lineLog = ExpectedPowerUp
         /\ InProgMode
         /\ ddrc = [sdi |-> 1, sii |-> 1, sdo |-> 0, sci |-> 1, vcc |-> 1, rst |-> 1]

C10_Witness ==
  /\ pc = "sig0_cmp" /\ tpc = "lead" /\ nTB = 1
  /\ lineLog = ExpectedPowerUp
  /\ InProgMode /\ ddrc.sdo = 0

(***************************************************************************)
(* Properties of transferByte, checked under SpecTB.                       *)
(***************************************************************************)
\* the returned call of the harness
TB_Returned == pc = "h_done" /\ tpc = "idle"

\* what the claim expects on (SDI, SII) at the 11 pulses of transferByte(d, s)
ExpectedPulses(d, s) ==
  << <<0, 0>> >> \o [k \in 1..8 |-> <<Bit(d, 8 - k), Bit(s, 8 - k)>>]
                 \o << <<0, 0>>, <<0, 0>> >>

\* C5: for every data and instruction byte one transferByte call makes exactly
\* 11 clock pulses, with (SDI, SII) = (0,0), then the bit pairs 7 down to 0,
\* then (0,0), (0,0); SCI, SDI and SII are low when the call returns.
C5_FramedMsbFirst ==
  /\ Len(pulses) <= 11
  /\ TB_Returned =>
       /\ pulses = ExpectedPulses(h.data, h.instr)
       /\ portc.sci = 0 /\ portc.sdi = 0 /\ portc.sii = 0

C5_Witness ==
  /\ TB_Returned
  /\ h.data = 165 /\ h.instr = 76
  /\ Len(pulses) = 11

\* the byte with the k-th sampled level at bit position 8-k
SampledByte(s) ==
  LET acc[k \in 0..Len(s)] ==
        IF k = 0 THEN 0 ELSE acc[k - 1] + s[k].level * 2^(8 - k)
  IN acc[Len(s)]

\* C6: transferByte samples SDO exactly 8 times, the k-th time after pulse k
\* and before pulse k+1, with SDI/SII still as pulse k left them; the result
\* has the k-th sample at bit 8-k, so it is the byte the chip shifted out.
C6_SampledBeforeDrive ==
  /\ Len(samples) <= 8
  /\ \A k \in 1..Len(samples) :
       /\ samples[k].pulses = k
       /\ <<samples[k].sdi, samples[k].sii>> = pulses[k]
  /\ TB_Returned =>
       /\ Len(samples) = 8
       /\ ret = SampledByte(samples)
       /\ ret = h.out

C6_Witness ==
  /\ TB_Returned
  /\ h.out = 165 /\ ret = 165
  /\ Len(samples) = 8 /\ samples[8].pulses = 8

(***************************************************************************)
(* Properties of the fuse instructions, checked under SpecRT.              *)
(***************************************************************************)
\* C7: on a chip that stores what is written, writeFuseXBits(v) followed at
\* once by readFuseXBits() returns v, for every byte v and each bank X, and
\* the other two banks read back what they held before the write.
C7_WriteReadRoundTrip ==
  /\ Len(h.rets) >= 1 => h.rets[1] = h.val
  /\ \A k \in 2..Len(h.rets) : h.rets[k] = CorruptFuses[ReadOrder(h.bank)[k]]

C7_Witness ==
  /\ pc = "h_done"
  /\ h.bank = "high" /\ h.val = 223
  /\ h.rets = <<223, CorruptFuses.low, CorruptFuses.ext>>

(***************************************************************************)
(* Reporting, the outcome flag and the trigger, checked under Spec.        *)
(***************************************************************************)
IdleLabels == {"loop", "test_switch"}

\* the LED levels of the first n report periods for an outcome: lit in every
\* period on success; on failure lit in the 1st, 3rd, ... period
ExpectedPeriods(ok, n) ==
  [k \in 1..n |-> [led |-> IF ok THEN 0 ELSE (k + 1) % 2, ms |-> 250]]

\* C13: Reporting is 16 periods of 250 ms for either outcome; on success the
\* LED is lit in all of them, on failure it starts unlit and changes state at
\* the start of each period; after the 16th period control is back in Idle.
C13_ReportPeriods ==
  /\ Len(repLog) <= 16
  /\ pc = "rep_init" => (repLog = <<>> /\ led = 1)
  /\ pc \in {"rep_test", "rep_led", "rep_delay"} =>
       repLog = ExpectedPeriods(fuseRestoreSuccessful, Len(repLog))
  /\ pc \in {"rep_test", "rep_led", "rep_delay"} => rep_i = Len(repLog)
  /\ pc \in {"rep_led", "rep_delay"} => Len(repLog) < 16
  /\ pc = "rep_delay" =>
       led = ExpectedPeriods(fuseRestoreSuccessful, rep_i + 1)[rep_i + 1].led
  /\ (pc \in IdleLabels /\ repLog # <<>>) => Len(repLog) = 16
  /\ Len(repLog) = 16 => pc \in {"rep_test"} \cup IdleLabels

C13_Witness ==
  /\ pc = "rep_test" /\ Len(repLog) = 16
  /\ fuseRestoreSuccessful = FALSE
  /\ repLog[1].led = 0 /\ repLog[2].led = 1 /\ repLog[16].led = 1

\* the attempt matched a record and every read-back it compares returned the
\* record's value
ReadBacksEqual ==
  /\ Supported
  /\ LET r == RecordOf(tgt.sig) IN
     /\ Returned("readFuseLowBits") = {targetCpu[r].fuseLowBits}
     /\ Returned("readFuseHighBits") = {targetCpu[r].fuseHighBits}
     /\ targetCpu[r].fuseExtendedBits # 0 =>
          Returned("readFuseExtendedBits") = {targetCpu[r].fuseExtendedBits}

\* C17: the outcome flag is false whenever the trigger is tested, and once an
\* attempt has reached power-down the flag is true exactly if this attempt
\* matched a record and read back equal values, whatever the outcomes of the
\* attempts before it.
C17_OutcomeOfThisAttempt ==
  /\ pc = "test_switch" => fuseRestoreSuccessful = FALSE
  /\ pc \in ScanLabels \cup {"powerup"} => fuseRestoreSuccessful = FALSE
  /\ pc \in {"powerdown"} \cup ReportLabels =>
       (fuseRestoreSuccessful <=> ReadBacksEqual)

C17_Witness ==
  /\ hadSuccess
  /\ pc = "rep_led" /\ rep_i = 3
  /\ Supported /\ Len(FuseLog) > 0
  /\ fuseRestoreSuccessful = FALSE

\* a restore sequence is running: from the first power-up statement to the
\* end of the 16th report period
Running == pc \in {"powerup", "for_init"} \cup ScanLabels \cup MatchLabels
                  \cup {"powerdown"} \cup ReportLabels

\* a step that starts a restore sequence
StartsSequence == pc # "powerup" /\ pc' = "powerup"

\* C18: the trigger is tested only in Idle with the LED unlit: a sequence
\* starts only by the test of the trigger finding it low, never from inside a
\* running sequence, a running sequence is left only for the top of the loop
\* after the 16th report period, and a change of the trigger changes nothing
\* in the controller or the target.
C18_TriggerOnlyInIdle ==
  /\ [](pc = "test_switch" => led = 1)
  /\ [][StartsSequence => (pc = "test_switch" /\ sw = 0 /\ led = 1)]_vars
  /\ [][(Running /\ ~Running') =>
          (pc = "rep_test" /\ Len(repLog) = 16 /\ pc' = "loop")]_vars
  /\ [][sw' # sw => UNCHANGED <<ctrlRegs, mainVars, fnVars, tbVars, tgt>>]_vars

C18_Witness ==
  /\ pc = "rep_test" /\ Len(repLog) = 16
  /\ sw = 0 /\ seqInPress = 0
  /\ Len(lineLog) = 24

(***************************************************************************)
(* The programming lines, checked under Spec.                              *)
(***************************************************************************)
\* SDO is released by the controller, so that the chip drives it
SdoIsInput == ddrc.sdo = 0

\* C19: the clock line is high, and a transferByte call or an instruction
\* function is running, only while the chip is in programming mode (VCC
\* driven high, reset line driven low) with SDO an input; in Idle, in the
\* power-up and power-down blocks and in Reporting no call runs and the clock
\* is low.
C19_ClockOnlyInProgMode ==
  /\ (portc.sci = 1 \/ tpc # "idle" \/ fn # "none") =>
       (InProgMode /\ SdoIsInput)
  /\ pc \in {"setup", "powerup", "powerdown"} \cup IdleLabels \cup ReportLabels =>
       (portc.sci = 0 /\ tpc = "idle" /\ fn = "none")

C19_Witness ==
  /\ portc.sci = 1 /\ tpc = "clk_bit"
  /\ fn = "writeFuseHighBits" /\ fpc = 6
  /\ InProgMode /\ SdoIsInput


\* C20: from controller reset on, in every state in which the reset line is
\* an output driven low (12 V applied to the chip), VCC is an output driven
\* high.
C20_HvOnlyWhenPowered ==
  HvAsserted => (ddrc.vcc = 1 /\ portc.vcc = 1)

(***************************************************************************)
(* Detection and verification call by call, checked under Spec.            *)
(***************************************************************************)
\* the byte indexes of the getSignature calls of the attempt, in order
IsSigCall(e) == e.ev = "call" /\ e.op = "getSignature"
SigCalls == LET c == SelectSeq(opLog, IsSigCall)
            IN [k \in 1..Len(c) |-> c[k].val]

\* the scan has ended, with a match or at the end of the list
ScanDone == pc \in MatchLabels \cup {"powerdown"} \cup ReportLabels

\* C14 as stated: one detection calls getSignature exactly three times, once
\* per byte index 0, 1, 2, wherever the matching record stands in the table
\* and whether or not a record matches.
C14_ThreeSignatureReads ==
  /\ Len(SigCalls) <= 3
  /\ ScanDone => SigCalls = <<0, 1, 2>>

\* the calls the if of line 372 makes for record r on a chip with signature
\* sig: byte 0, byte 1 if byte 0 is the record's, byte 2 if byte 1 is too
CallsForRecord(sig, r) ==
  IF sig[1] # targetCpu[r].signature[1] THEN <<0>>
  ELSE IF sig[2] # targetCpu[r].signature[2] THEN <<0, 1>>
  ELSE <<0, 1, 2>>

\* the calls of one pass over the records r, r+1, ... up to the first match
\* or the end of the list
RECURSIVE CallsFrom(_, _)
CallsFrom(sig, r) ==
  IF targetCpu[r].signature[1] = 0 THEN <<>>
  ELSE IF targetCpu[r].signature = sig THEN CallsForRecord(sig, r)
  ELSE CallsForRecord(sig, r) \o CallsFrom(sig, r + 1)

\* C14 (amended): one detection is a single pass over the table that, for
\* each record up to the first match, calls getSignature(0), then
\* getSignature(1) if byte 0 was the record's, then getSignature(2) if byte 1
\* was too; only a match on the first record takes exactly three calls.
C14_SignatureReadPerRecord ==
  /\ pc \in ScanLabels => IsPrefix(SigCalls, CallsFrom(tgt.sig, 1))
  /\ ScanDone => SigCalls = CallsFrom(tgt.sig, 1)
  /\ (ScanDone /\ Len(SigCalls) = 3) => tgt.sig = targetCpu[1].signature

C14_Witness ==
  /\ pc = "write_low"
  /\ tgt.sig = <<30, 145, 11>>
  /\ SigCalls = <<0, 1, 0, 1, 2>>


\* the read functions the attempt called, in order
IsReadCall(e) == e.ev = "call" /\ e.op \in ReadFns
ReadCalls == LET c == SelectSeq(opLog, IsReadCall)
             IN [k \in 1..Len(c) |-> c[k].op]

\* the verification of a matched attempt has ended
VerifyDone == Supported /\ pc \in {"success", "powerdown"} \cup ReportLabels

\* C15 as stated: after a match the low and the high fuse byte are both read
\* back in every attempt, and the extended byte exactly if the record's
\* extended value is not zero, whether or not an earlier read-back differed.
C15_AllReadBacks ==
  VerifyDone =>
    ReadCalls = IF targetCpu[RecordOf(tgt.sig)].fuseExtendedBits # 0
                  THEN <<"readFuseLowBits", "readFuseHighBits", "readFuseExtendedBits">>
                  ELSE <<"readFuseLowBits", "readFuseHighBits">>

\* C15 (amended): after a match the low fuse byte is read back in every
\* attempt; the high byte is read back exactly if the low read-back was
\* equal; the extended byte exactly if the low and high read-backs were equal
\* and the record's extended value is not zero.
C15_ReadBacksUntilMismatch ==
  VerifyDone =>
    LET rec     == targetCpu[RecordOf(tgt.sig)]
        lowOk   == Returned("readFuseLowBits") = {rec.fuseLowBits}
        highOk  == Returned("readFuseHighBits") = {rec.fuseHighBits}
    IN ReadCalls =
         <<"readFuseLowBits">>
         \o (IF lowOk THEN <<"readFuseHighBits">> ELSE <<>>)
         \o (IF lowOk /\ highOk /\ rec.fuseExtendedBits # 0
               THEN <<"readFuseExtendedBits">> ELSE <<>>)

C15_Witness ==
  /\ pc = "rep_init" /\ Supported
  /\ tgt.sig = <<30, 146, 6>>
  /\ ReadCalls = <<"readFuseLowBits">>
  /\ Returned("readFuseLowBits") = {CorruptFuses.low}

(***************************************************************************)
(* The fuse write functions step by step, checked under SpecRT.            *)
(***************************************************************************)
\* a completed poll that saw SDO high
PollHigh == [op |-> "poll", level |-> 1]

\* the kth step of a fuse write with value v is as the claim says
WriteStepOk(k, st, v) ==
  CASE k \in {1, 3, 4} -> st.op = "tb"
    [] k = 2           -> st.op = "tb" /\ st.d = v
    [] k \in {5, 7}    -> st = PollHigh
    [] k = 6           -> st = TB(0, 76)
    [] OTHER           -> FALSE

\* the write call of the harness has returned
WriteReturned == pc = "h_read" /\ fn = "none" /\ h.rets = <<>>

\* C16: a fuse write function makes in this order and nothing else four
\* transferByte calls, the second with the fuse value as data, a poll that
\* ends with SDO high, transferByte(0x00, 0x4C) and a second poll that ends
\* with SDO high, and returns only after that second poll.
C16_WriteSteps ==
  /\ (fn \in WriteFns \/ WriteReturned) =>
       \A k \in 1..Len(fnLog) : WriteStepOk(k, fnLog[k], h.val)
  /\ WriteReturned => Len(fnLog) = 7

C16_Witness ==
  /\ WriteReturned
  /\ h.bank = "ext" /\ h.val = 165
  /\ Len(fnLog) = 7 /\ fnLog[7] = PollHigh
  /\ tgt.fuse["ext"] = 165

(***************************************************************************)
(* The completion poll, checked under Spec and, for termination, under     *)
(* FairSpec.                                                               *)
(***************************************************************************)
\* a fuse write has issued its four frames (or its six steps) and is in
\* pollSDO() with SDO low
WaitingForSdo ==
  /\ fn \in WriteFns /\ tpc = "idle"
  /\ Len(fnLog) \in {4, 6}
  /\ SDO_IN = 0

\* C12: the completion poll has no timeout.  In a state where a fuse write
\* of a matched device waits for SDO, the chip is powered with the high
\* voltage on reset and the LED is unlit, and every step taken while SDO is
\* low leaves the controller where it is: the write has not returned, no line
\* and no LED changes, and neither power-down nor Reporting nor the test of
\* the trigger is reached.  A chip that keeps SDO low for ever keeps it there.
C12_PollHasNoTimeout ==
  /\ [](WaitingForSdo => (pc \in MatchLabels /\ InProgMode /\ led = 1))
  /\ [][WaitingForSdo =>
          /\ UNCHANGED <<ctrlRegs, mainVars, fnVars, tbVars>>
          /\ (SDO_IN' = 0 => WaitingForSdo')]_vars

C12_Witness ==
  /\ WaitingForSdo
  /\ fn = "writeFuseHighBits" /\ tgt.busy
  /\ pc = "ext_test" /\ seqInPress = 1


\* the steps of the controller program
Controller ==
  \/ Setup \/ LoopTop \/ TestSwitch \/ PinStep
  \/ ForInit \/ ForTest \/ ForInc
  \/ \E k \in 0..2 : SigCall(k) \/ SigCompare(k)
  \/ LoadFuses \/ WriteLow \/ WriteHigh \/ ExtTest \/ WriteExt
  \/ VerifyLow \/ VerifyLowCmp \/ VerifyHigh \/ VerifyHighCmp
  \/ VerifyExtTest \/ VerifyExt \/ VerifyExtCmp \/ Success
  \/ RepInit \/ RepTest \/ RepLed \/ RepDelay
  \/ Fn_Transfer \/ pollSDO \/ Fn_Return
  \/ transferByte

\* The button is held from reset on, so that sequence follows sequence, or
\* is never pressed.
InitHeld ==
  /\ portc = AllLow /\ ddrc = AllLow
  /\ led = 0 /\ sw \in {0, 1}
  /\ pc = "setup" /\ stmt = 0
  /\ device = 0 /\ fuseRestoreSuccessful = FALSE
  /\ fuseLowBits = 0 /\ fuseHighBits = 0 /\ fuseExtendedBits = 0
  /\ rep_i = 0
  /\ fn = "none" /\ fpc = 0 /\ code = 0 /\ fret = 0 /\ fnLog = <<>>
  /\ tpc = "idle" /\ data = 0 /\ instruction = 0 /\ tb_i = 0
  /\ byteRead = 0 /\ ret = 0
  /\ tgt = NoTarget
  /\ pulses = <<>> /\ samples = <<>>
  /\ opLog = <<>> /\ lineLog = <<>> /\ nTB = 0 /\ seqInPress = 0
  /\ repLog = <<>> /\ hadSuccess = FALSE
  /\ h = [data |-> 0, instr |-> 0, out |-> 0, bank |-> "none", val |-> 0,
          rets |-> <<>>]

NextFair == Controller \/ TargetReady

\* The processor keeps executing the program, and the chip ends every fuse
\* write it has started.
FairSpec ==
  InitHeld /\ [][NextFair]_vars /\ WF_vars(Controller) /\ WF_vars(TargetReady)

\* the 16th report period of the sequence has ended, after a complete
\* power-down
Reported == pc = "rep_test" /\ Len(repLog) = 16 /\ Len(lineLog) = 24

\* C11: if the chip raises SDO whenever a completion poll waits, every
\* restore sequence that has started goes on to complete the power-down and
\* the 16 report periods, and then returns to the test of the trigger.
C11_SequenceCompletes ==
  /\ (pc = "powerup") ~> Reported
  /\ Reported ~> (pc = "test_switch")

C11_Witness ==
  /\ pc = "test_switch" /\ Len(repLog) = 16 /\ Len(lineLog) = 24
  /\ Returned("readFuseLowBits") # {}
  /\ tgt.busy = FALSE

=============================================================================
